---- MODULE Spec2Model ----
(***************************************************************************)
(* Model of the pygame-flappy-bird runtime skeleton:                       *)
(*   - SceneManager (src/src/scene.py): the scene stack, its push / pop /  *)
(*     switch transitions and the handle_events / update / draw dispatch;  *)
(*   - Game (src/src/game.py): the main loop and its phases.               *)
(* Scene callbacks are code of the embedding application: they are         *)
(* modelled as frames of a call stack that may call back into the manager  *)
(* or return.  A manager operation is cut into the atomic segments that    *)
(* lie between two callbacks into a scene.                                 *)
(***************************************************************************)
EXTENDS Integers, Sequences, FiniteSets, TLC

\* ------------------------------------------------------------------ bounds
NumScenes == 2      \* number of distinct scene instances
MaxOps    == 3      \* push/pop/switch calls issued over one behaviour
MaxEvents == 1      \* events in one polled batch

\* --------------------------------------------------------------- constants
None == 0                                  \* Python's None
Scenes == 1..NumScenes                     \* scene instances
EventTypes == {"QUIT", "KEYDOWN"}          \* pygame event types seen by the loop
Batches == UNION {[1..n -> EventTypes] : n \in 0..MaxEvents}
TickTimes == {16, 33}                      \* ms a Clock.tick(GAME_FPS) may measure

VARIABLES
    scenes,         \* SceneManager.scenes: the stack, last = top
    current,        \* SceneManager.current
    running,        \* Game.running
    clock_time,     \* what Game.clock.get_time() returns (ms)
    pc,             \* position of the application / Game.run
    calls,          \* call stack of manager operations and scene callbacks
    error,          \* exception that ended the program, "none" if none
    ops,            \* number of push/pop/switch calls issued so far
    on_enter_calls, \* per scene: on_enter invocations received
    on_exit_calls,  \* per scene: on_exit invocations received
    became,         \* per scene: times self.current was set to it
    stopped,        \* per scene: times self.current was set away from it
    hist,           \* records of the last two completed transitions
    phases,         \* phases executed so far in the current loop iteration
    polled,         \* the batch pygame.event.get() returned this iteration
    delivered,      \* dispatches of the current iteration
    quits,          \* number of pygame.quit() calls
    display,        \* DisplayManager: surface size, window size, last frame shown
    assets,         \* AssetManager: caches, and the loads and returns so far
    backend         \* pygame subsystems that are initialised

ext_vars == <<display, assets, backend>>

vars == <<scenes, current, running, clock_time, pc, calls, error, ops,
          on_enter_calls, on_exit_calls, became, stopped, hist, phases,
          polled, delivered, quits, ext_vars>>

game_vars == <<running, clock_time, pc, phases, polled, delivered, quits, ext_vars>>
count_vars == <<on_enter_calls, on_exit_calls, became, stopped>>

\* ----------------------------------------------------------- list helpers
\* `if self.current:` -- a Scene object is truthy (Scene defines neither
\* __bool__ nor __len__), None is not
Truthy(s) == s # None

\* list.append(scene)
ListAppend(stk, s) == Append(stk, s)

\* list.pop() on a non-empty list (the empty case raises IndexError)
ListPop(stk) == SubSeq(stk, 1, Len(stk) - 1)

\* `self.scenes[-1] if self.scenes else None`
TopOrNone(stk) == IF stk # <<>> THEN stk[Len(stk)] ELSE None

Inc(f, s) == [f EXCEPT ![s] = @ + 1]

Range(seq) == {seq[i] : i \in 1..Len(seq)}

\* ------------------------------------------------------------- call stack
TopFrame == calls[Len(calls)]
Below == SubSeq(calls, 1, Len(calls) - 1)

TransitionFns == {"push", "pop", "switch"}
DispatchFns == {"handle_events", "update", "draw"}
HookFns == {"on_enter", "on_exit"}

\* frame of a manager operation that has just been called
OpFrame(fn, s, by, issuer) ==
    [fn |-> fn, pc |-> "start", scene |-> s, top |-> None, pre |-> scenes,
     hooks |-> <<>>, events |-> <<>>, dt |-> 0, by |-> by, issuer |-> issuer,
     seq |-> ops + 1]

\* frame of a scene callback fn invoked on scene s while the stack is stk
CbFrame(fn, s, stk, ev, dt) ==
    [fn |-> fn, pc |-> "body", scene |-> s, top |-> TopOrNone(stk), pre |-> <<>>,
     hooks |-> <<>>, events |-> ev, dt |-> dt, by |-> "manager", issuer |-> None,
     seq |-> 0]

Hook(fn, s) == [fn |-> fn, scene |-> s]

InTransition == \E i \in 1..Len(calls) : calls[i].fn \in TransitionFns

\* ------------------------------------------------------------ ghost counts
\* the assignment `self.current = new`: the old current stops being current,
\* the new one becomes current
BecameAfter(new) == IF new # None THEN Inc(became, new) ELSE became
StoppedAfter == IF current # None THEN Inc(stopped, current) ELSE stopped

\* the top frame f goes on as f2 and invokes callback cb of scene s
Invoke(f2, cb) == calls' = Below \o <<f2, cb>>
\* the top frame f goes on as f2 without a call
Goto(f2) == calls' = Below \o <<f2>>

Logged(f, fn, s) == [f EXCEPT !.hooks = Append(@, Hook(fn, s))]

\* record of a completed transition
Record(f) ==
    [op |-> f.fn, scene |-> f.scene, pre |-> f.pre, post |-> scenes,
     hooks |-> f.hooks, by |-> f.by, issuer |-> f.issuer, seq |-> f.seq]

Remember(r) == IF Len(hist) < 2 THEN Append(hist, r) ELSE <<hist[2], r>>

\* the manager operation of the top frame returns to its caller
Return(f) ==
    /\ calls' = Below
    /\ hist' = Remember(Record(f))
    /\ UNCHANGED <<scenes, current, error, ops, count_vars, game_vars>>

\* an uncaught exception unwinds every frame and ends the program
Crash(e) ==
    /\ error' = e
    /\ calls' = <<>>
    /\ pc' = "crashed"

other_game_vars == <<running, clock_time, phases, polled, delivered, quits, ext_vars>>

\* `self.current.on_exit()` in frame f, which goes on at "exited";
\* a method call on None raises AttributeError
CallOnExit(f) ==
    /\ IF current = None
       THEN /\ Crash("AttributeError")
            /\ UNCHANGED on_exit_calls
       ELSE /\ Invoke(Logged([f EXCEPT !.pc = "exited"], "on_exit", current),
                      CbFrame("on_exit", current, scenes, <<>>, 0))
            /\ on_exit_calls' = Inc(on_exit_calls, current)
            /\ UNCHANGED <<error, pc>>
    /\ UNCHANGED <<scenes, current, ops, on_enter_calls, became, stopped, hist,
                   other_game_vars>>

\* `self.current.on_enter()` in frame f once the same segment has set the stack
\* to stk and self.current to new; f goes on at "done"
CallOnEnter(f, stk, new) ==
    IF new = None
    THEN /\ Crash("AttributeError")
         /\ UNCHANGED on_enter_calls
    ELSE /\ Invoke(Logged([f EXCEPT !.pc = "done"], "on_enter", new),
                   CbFrame("on_enter", new, stk, <<>>, 0))
         /\ on_enter_calls' = Inc(on_enter_calls, new)
         /\ UNCHANGED <<error, pc>>

\* list.pop() on an empty list
PopFromEmpty ==
    /\ Crash("IndexError")
    /\ UNCHANGED <<scenes, current, ops, count_vars, hist, other_game_vars>>

\* ------------------------------------------------- SceneManager.push (69-81)
\* push that leaves the outgoing scene without its on_exit
PushExitsNever(cur) == FALSE
\* line 77: `if self.current:` guards the outgoing scene's on_exit
PushExits(cur) == Truthy(cur)
\* line 79: self.scenes.append(scene)
PushScenes(stk, s) == ListAppend(stk, s)

SceneManagerPush ==
    /\ calls # <<>> /\ TopFrame.fn = "push"
    /\ LET f == TopFrame IN
       \/ /\ f.pc = "start"
          /\ IF PushExits(current)
             THEN CallOnExit(f)
             ELSE /\ Goto([f EXCEPT !.pc = "exited"])
                  /\ UNCHANGED <<scenes, current, error, ops, count_vars, hist,
                                 game_vars>>
       \/ /\ f.pc = "exited"
          /\ scenes' = PushScenes(scenes, f.scene)
          /\ current' = f.scene
          /\ became' = BecameAfter(current')
          /\ stopped' = StoppedAfter
          /\ CallOnEnter(f, scenes', current')
          /\ UNCHANGED <<ops, on_exit_calls, hist, other_game_vars>>
       \/ /\ f.pc = "done"
          /\ Return(f)

\* -------------------------------------------------- SceneManager.pop (83-93)
\* pop without the emptiness guard
PopExitsAlways(cur) == TRUE
\* line 88: `if self.current:` guards on_exit and the removal
PopExits(cur) == Truthy(cur)
\* pop that clears the whole stack instead of removing its top
PopScenesClears(stk) == <<>>
\* line 90: self.scenes.pop()
PopScenes(stk) == ListPop(stk)
\* pop that leaves self.current as it was
PopCurrentStale(stk) == current
\* pop that always leaves self.current empty
PopCurrentNone(stk) == None
\* line 91: self.current = self.scenes[-1] if self.scenes else None
PopCurrent(stk) == TopOrNone(stk)
\* pop that never re-enters the scene it uncovers
PopEntersNever(cur) == FALSE
\* line 92: `if self.current:` guards the resumed scene's on_enter
PopEnters(cur) == Truthy(cur)

\* lines 91-93, on the stack stk that line 90 left
PopRest(f, stk) ==
    /\ scenes' = stk
    /\ current' = PopCurrent(stk)
    /\ became' = BecameAfter(current')
    /\ stopped' = StoppedAfter
    /\ IF PopEnters(current')
       THEN CallOnEnter(f, stk, current')
       ELSE /\ Goto([f EXCEPT !.pc = "done"])
            /\ UNCHANGED <<error, pc, on_enter_calls>>
    /\ UNCHANGED <<ops, on_exit_calls, hist, other_game_vars>>

SceneManagerPop ==
    /\ calls # <<>> /\ TopFrame.fn = "pop"
    /\ LET f == TopFrame IN
       \/ /\ f.pc = "start"
          /\ IF PopExits(current)
             THEN CallOnExit(f)
             ELSE PopRest(f, scenes)
       \/ /\ f.pc = "exited"
          /\ IF scenes = <<>>
             THEN PopFromEmpty
             ELSE PopRest(f, PopScenes(scenes))
       \/ /\ f.pc = "done"
          /\ Return(f)

\* ----------------------------------------------- SceneManager.switch (95-108)
\* line 103: `if self.current:` guards on_exit and the removal
SwitchExits(cur) == Truthy(cur)
\* switch that forgets to remove the outgoing scene
SwitchRemoveNothing(stk) == stk
\* line 105: self.scenes.pop()
SwitchRemove(stk) == ListPop(stk)
\* line 106: self.scenes.append(scene)
SwitchScenes(stk, s) == ListAppend(stk, s)

\* lines 106-108, on the stack stk that line 105 left
SwitchRest(f, stk) ==
    /\ scenes' = SwitchScenes(stk, f.scene)
    /\ current' = f.scene
    /\ became' = BecameAfter(current')
    /\ stopped' = StoppedAfter
    /\ CallOnEnter(f, scenes', current')
    /\ UNCHANGED <<ops, on_exit_calls, hist, other_game_vars>>

SceneManagerSwitch ==
    /\ calls # <<>> /\ TopFrame.fn = "switch"
    /\ LET f == TopFrame IN
       \/ /\ f.pc = "start"
          /\ IF SwitchExits(current)
             THEN CallOnExit(f)
             ELSE SwitchRest(f, scenes)
       \/ /\ f.pc = "exited"
          /\ IF scenes = <<>>
             THEN PopFromEmpty
             ELSE SwitchRest(f, SwitchRemove(scenes))
       \/ /\ f.pc = "done"
          /\ Return(f)

\* ------------------------- SceneManager.handle_events / update / draw (110-138)
\* dispatch without the emptiness guard
DispatchGuardMissing(fn, cur) == TRUE
\* lines 117, 127, 137: `if self.current:` guards the forwarding
DispatchGuard(fn, cur) == Truthy(cur)
\* dispatch to the bottom of the stack instead of the current scene
DispatchTargetBottom(fn, cur, stk) == IF stk # <<>> THEN stk[1] ELSE cur
\* lines 118, 128, 138: the scene whose callback is invoked
DispatchTarget(fn, cur, stk) == cur

\* ghost record of one dispatch: receiver, stack top at that time, batch passed
Delivery(fn, to, ev) ==
    [phase |-> fn, to |-> to, top |-> TopOrNone(scenes), ev |-> ev, seq |-> ops]

\* the manager's dispatch of phase fn, called by Game with calls = <<>>;
\* calling a method on None raises AttributeError
Dispatch(fn, ev, dt, nextpc) ==
    IF DispatchGuard(fn, current)
    THEN LET to == DispatchTarget(fn, current, scenes) IN
         IF to = None
         THEN /\ Crash("AttributeError")
              /\ UNCHANGED delivered
         ELSE /\ calls' = <<CbFrame(fn, to, scenes, ev, dt)>>
              /\ pc' = nextpc
              /\ delivered' = Append(delivered, Delivery(fn, to, ev))
              /\ UNCHANGED error
    ELSE /\ pc' = nextpc
         /\ delivered' = Append(delivered, Delivery(fn, None, ev))
         /\ UNCHANGED <<calls, error>>

\* ------------------------------------------------ DisplayManager (display.py)
MaxSurf == 11       \* largest design width / height drawn
MaxWin  == 15       \* largest window width / height drawn

\* settings.py (GAME_WIDTH, GAME_HEIGHT) is not part of the sources at hand;
\* the design resolution of the specification's examples stands in for it
DesignW == 320
DesignH == 180

\* lines 24 and 29: the window is created at twice the design resolution
NewDisplay(w, h) == [surf |-> <<w, h>>, win |-> <<2 * w, 2 * h>>, shown |-> <<>>]

\* binary64 arithmetic: the (s, n, d) with s, d in 1..20 and n in 0..20 for
\* which the float product s * (n / d) falls just below the integer s*n/d, and
\* the same for the 320 x 180 surface in a 1999 x 1009 window
RoundsBelow == {<<11, 15, 11>>, <<13, 15, 13>>, <<180, 1009, 180>>}

\* lines 43-44: int(s * scale), scale being the float n / d
IntScaled(s, n, d) ==
    ((s * n) \div d) - (IF <<s, n, d>> \in RoundsBelow THEN 1 ELSE 0)

\* line 42: scale = min(win_w / surf_w, win_h / surf_h), kept as the pair
\* <<numerator, denominator>> of the smaller quotient
Scale(ww, sw, wh, sh) == IF ww * sh <= wh * sw THEN <<ww, sw>> ELSE <<wh, sh>>

\* lines 47-48: (win - scaled) // 2
Offset(win, scaled) == (win - scaled) \div 2

\* DisplayManager.present (31-58): <<scale numerator, scale denominator,
\* scaled_w, scaled_h, x, y>> of the frame blitted to the window
Present(d) ==
    LET ww == d.win[1]   wh == d.win[2]
        sw == d.surf[1]  sh == d.surf[2]
        scale == Scale(ww, sw, wh, sh)
        scaled_w == IntScaled(sw, scale[1], scale[2])
        scaled_h == IntScaled(sh, scale[1], scale[2])
    IN  [d EXCEPT !.shown = <<scale[1], scale[2], scaled_w, scaled_h,
                              Offset(ww, scaled_w), Offset(wh, scaled_h)>>]

\* ------------------------------------------------------------ Game (game.py)
\* loop body that draws before it updates
RunBodyDrawFirst == <<"handle_events", "draw", "update", "present", "tick">>
\* lines 72-76: the body of the `while self.running:` loop
RunBody == <<"handle_events", "update", "draw", "present", "tick">>

\* the position after loop-body method m: the next method, or the loop test
After(m) ==
    LET i == CHOOSE k \in 1..Len(RunBody) : RunBody[k] = m
    IN  IF i < Len(RunBody) THEN RunBody[i + 1] ELSE "loop"

\* lines 32-34: a QUIT event in the batch clears running
HasQuit(batch) == \E i \in 1..Len(batch) : batch[i] = "QUIT"
RunningAfter(batch, r) == IF HasQuit(batch) THEN FALSE ELSE r
\* forwarding that withholds the QUIT events from the scenes
ForwardedWithoutQuit(batch) == SelectSeq(batch, LAMBDA e : e # "QUIT")
\* line 35: the batch handed to SceneManager.handle_events
Forwarded(batch) == batch

\* line 71: the loop test
LoopContinues(r) == r

\* the application calls game.run()
GameRun ==
    /\ pc = "setup" /\ calls = <<>>
    /\ pc' = "loop"
    /\ UNCHANGED <<scenes, current, running, clock_time, calls, error, ops,
                   count_vars, hist, phases, polled, delivered, quits, ext_vars>>

\* line 71
LoopTest ==
    /\ pc = "loop" /\ calls = <<>>
    /\ IF LoopContinues(running)
       THEN /\ pc' = RunBody[1]
            /\ phases' = <<>>
            /\ polled' = <<>>
            /\ delivered' = <<>>
            /\ hist' = <<>>
       ELSE /\ pc' = "quit"
            /\ UNCHANGED <<phases, polled, delivered, hist>>
    /\ UNCHANGED <<scenes, current, running, clock_time, calls, error, ops,
                   count_vars, quits, ext_vars>>

\* Game.handle_events, lines 26-35
GameHandleEvents ==
    /\ pc = "handle_events" /\ calls = <<>>
    /\ \E batch \in Batches :
          /\ polled' = batch
          /\ running' = RunningAfter(batch, running)
          /\ phases' = phases \o <<"poll", "forward">>
          /\ Dispatch("handle_events", Forwarded(batch), 0, After("handle_events"))
    /\ UNCHANGED <<scenes, current, clock_time, ops, count_vars, hist, quits, ext_vars>>

\* Game.update, lines 37-43; dt is kept in thousandths of a second
GameUpdate ==
    /\ pc = "update" /\ calls = <<>>
    /\ phases' = Append(phases, "update")
    /\ Dispatch("update", <<>>, clock_time, After("update"))
    /\ UNCHANGED <<scenes, current, running, clock_time, ops, count_vars, hist,
                   polled, quits, ext_vars>>

\* Game.draw, lines 45-51
GameDraw ==
    /\ pc = "draw" /\ calls = <<>>
    /\ phases' = phases \o <<"clear", "draw">>
    /\ Dispatch("draw", <<>>, 0, After("draw"))
    /\ UNCHANGED <<scenes, current, running, clock_time, ops, count_vars, hist,
                   polled, quits, ext_vars>>

\* Game.present, lines 53-58
GamePresent ==
    /\ pc = "present" /\ calls = <<>>
    /\ phases' = Append(phases, "present")
    /\ display' = Present(display)
    /\ pc' = After("present")
    /\ UNCHANGED <<scenes, current, running, clock_time, calls, error, ops,
                   count_vars, hist, polled, delivered, quits, assets, backend>>

\* Game.tick, lines 60-64
GameTick ==
    /\ pc = "tick" /\ calls = <<>>
    /\ \E ms \in TickTimes : clock_time' = ms
    /\ phases' = Append(phases, "tick")
    /\ pc' = After("tick")
    /\ UNCHANGED <<scenes, current, running, calls, error, ops, count_vars,
                   hist, polled, delivered, quits, ext_vars>>

\* line 77: pygame.quit()
PygameQuit ==
    /\ pc = "quit" /\ calls = <<>>
    /\ quits' = quits + 1
    /\ backend' = {}
    /\ pc' = "done"
    /\ UNCHANGED <<scenes, current, running, clock_time, calls, error, ops,
                   count_vars, hist, phases, polled, delivered, display, assets>>

\* ------------------------------------------------------- application code
\* a call of push / pop / switch on the manager: the new frame on top
CallManager(by, issuer) ==
    /\ ops < MaxOps
    /\ ops' = ops + 1
    /\ \/ \E s \in Scenes : calls' = Append(calls, OpFrame("push", s, by, issuer))
       \/ calls' = Append(calls, OpFrame("pop", None, by, issuer))
       \/ \E s \in Scenes : calls' = Append(calls, OpFrame("switch", s, by, issuer))
    /\ UNCHANGED <<scenes, current, error, count_vars, hist, game_vars>>

\* the entry point sets the stack up before it calls run()
AppCalls ==
    /\ pc = "setup" /\ calls = <<>>
    /\ CallManager("app", None)

\* a scene calls the manager from inside handle_events, update or draw
SceneCalls ==
    /\ calls # <<>> /\ TopFrame.fn \in DispatchFns
    /\ CallManager(TopFrame.fn, TopFrame.scene)

\* a scene callback (dispatch or lifecycle hook) returns
SceneReturns ==
    /\ calls # <<>> /\ TopFrame.fn \in DispatchFns \cup HookFns
    /\ calls' = Below
    /\ UNCHANGED <<scenes, current, error, ops, count_vars, hist, game_vars>>

\* ---------------------------------------------------- AssetManager (asset.py)
MaxLoads == 4       \* load_icon / load_image / load_sound calls

\* names the application asks for; "icon" is also the key load_icon uses
Names == {"icon", "bird.png"}

\* no object: the value of a key that is not in a dict
NoHandle == [path |-> <<>>, id |-> 0]
\* the object that the k-th read from disk creates, out of the file at path
Handle(path, k) == [path |-> path, id |-> k]

\* lines 35, 51, 67: os.path.join(self.assets_dir, ...)
IconPath == <<"favicon.ico">>
ImagePath(name) == <<"textures", name>>
SoundPath(name) == <<"sounds", name>>

\* lines 33 and 37: the key of the icon in self.images
IconKey == "icon"

\* AssetManager.__init__ (14-23): both caches empty; nothing read, nothing returned
NoAssets ==
    [images |-> [n \in Names |-> NoHandle], sounds |-> [n \in Names |-> NoHandle],
     reads |-> <<>>, returned |-> <<>>]

\* a cache test that always misses
NeverCached(cache, key) == FALSE
\* lines 33, 50, 66: `name in self.images` / `name in self.sounds`
Cached(cache, key) == cache[key] # NoHandle

\* pygame.image.load(path) / pygame.mixer.Sound(path): one read, a new object
Read(a, path) == Handle(path, Len(a.reads) + 1)

Call(kind, name, h) == [kind |-> kind, name |-> name, handle |-> h]

\* AssetManager.load_icon (25-38)
LoadIcon(a) ==
    IF Cached(a.images, IconKey)
    THEN [a EXCEPT !.returned = Append(@, Call("icon", IconKey, a.images[IconKey]))]
    ELSE LET h == Read(a, IconPath) IN
         [a EXCEPT !.images[IconKey] = h,
                   !.reads = Append(@, IconPath),
                   !.returned = Append(@, Call("icon", IconKey, h))]

\* AssetManager.load_image (40-54)
LoadImage(a, name) ==
    IF Cached(a.images, name)
    THEN [a EXCEPT !.returned = Append(@, Call("image", name, a.images[name]))]
    ELSE LET h == Read(a, ImagePath(name)) IN
         [a EXCEPT !.images[name] = h,
                   !.reads = Append(@, ImagePath(name)),
                   !.returned = Append(@, Call("image", name, h))]

\* AssetManager.load_sound (56-70)
LoadSound(a, name) ==
    IF Cached(a.sounds, name)
    THEN [a EXCEPT !.returned = Append(@, Call("sound", name, a.sounds[name]))]
    ELSE LET h == Read(a, SoundPath(name)) IN
         [a EXCEPT !.sounds[name] = h,
                   !.reads = Append(@, SoundPath(name)),
                   !.returned = Append(@, Call("sound", name, h))]

not_assets == <<scenes, current, running, clock_time, pc, calls, error, ops,
                count_vars, hist, phases, polled, delivered, quits, display,
                backend>>

AssetsLoadIcon ==
    /\ Len(assets.returned) < MaxLoads
    /\ assets' = LoadIcon(assets)
    /\ UNCHANGED not_assets

AssetsLoadImage ==
    /\ Len(assets.returned) < MaxLoads
    /\ \E name \in Names : assets' = LoadImage(assets, name)
    /\ UNCHANGED not_assets

AssetsLoadSound ==
    /\ Len(assets.returned) < MaxLoads
    /\ \E name \in Names : assets' = LoadSound(assets, name)
    /\ UNCHANGED not_assets

\* ------------------------------------------------------------ specification
\* SceneManager.__init__ (62-67) and Game.__init__ (14-24)
\* lines 18, 19, 21: what pygame.init(), pygame.mixer.init() and
\* pygame.display.set_mode() bring up
Subsystems == <<"pygame", "mixer", "display">>

\* the fields of a Game and its SceneManager as the constructors set them
InitFields ==
    /\ scenes = <<>>
    /\ current = None
    /\ running = TRUE
    /\ clock_time = 0
    /\ calls = <<>>
    /\ error = "none"
    /\ ops = 0
    /\ on_enter_calls = [s \in Scenes |-> 0]
    /\ on_exit_calls = [s \in Scenes |-> 0]
    /\ became = [s \in Scenes |-> 0]
    /\ stopped = [s \in Scenes |-> 0]
    /\ hist = <<>>
    /\ phases = <<>>
    /\ polled = <<>>
    /\ delivered = <<>>
    /\ quits = 0
    /\ assets = NoAssets

\* a Game whose construction succeeded, but for its display
InitGame ==
    /\ InitFields
    /\ pc = "setup"
    /\ backend = Range(Subsystems)

Init ==
    /\ InitGame
    /\ display = NewDisplay(DesignW, DesignH)

Next ==
    \/ AppCalls
    \/ SceneCalls
    \/ SceneReturns
    \/ SceneManagerPush
    \/ SceneManagerPop
    \/ SceneManagerSwitch
    \/ GameRun
    \/ LoopTest
    \/ GameHandleEvents
    \/ GameUpdate
    \/ GameDraw
    \/ GamePresent
    \/ GameTick
    \/ PygameQuit

\* Transitions are issued by the entry point and by handle_events / update /
\* draw callbacks; on_enter and on_exit hooks return without calling the manager.
Spec == Init /\ [][Next]_vars

\* ================================================================== claims
Last(seq) == seq[Len(seq)]
Lower(stk) == SubSeq(stk, 1, Len(stk) - 1)
IsPrefix(a, b) == Len(a) <= Len(b) /\ SubSeq(b, 1, Len(a)) = a

\* the frames of manager operations in progress
OpFrames == {calls[i] : i \in {k \in 1..Len(calls) : calls[k].fn \in TransitionFns}}
\* the records at hand of completed transitions
Completed == Range(hist)
\* r is the latest transition and nothing has been called since
IsLatest(r) == ~InTransition /\ r.seq = ops

\* C1: between calls, every scene has received as many on_enter calls as the
\* times it became current and as many on_exit calls as the times it stopped
\* being current, and enter - exit is 1 for the current scene and 0 for others.
C1_LifecycleCounts ==
    ~InTransition =>
        \A s \in Scenes :
            /\ on_enter_calls[s] = became[s]
            /\ on_exit_calls[s] = stopped[s]
            /\ on_enter_calls[s] - on_exit_calls[s]
                   = IF s = current /\ s = TopOrNone(scenes) THEN 1 ELSE 0

\* a scene was entered, covered, and resumed by a pop: 2 enters, 1 exit
C1_Witness ==
    /\ ~InTransition /\ hist # <<>> /\ Last(hist).op = "pop"
    /\ \E s \in Scenes, u \in Scenes :
          /\ s # u /\ current = s
          /\ on_enter_calls[s] = 2 /\ on_exit_calls[s] = 1
          /\ on_enter_calls[u] = 1 /\ on_exit_calls[u] = 1

\* the hooks a transition has invoked so far, h, keep the order
\* <<on_exit of the outgoing scene, on_enter of the incoming scene>>
ExitBeforeEnter(h, prev) ==
    /\ Len(h) <= 2
    /\ \A i \in 1..Len(h) :
          /\ h[i].fn = "on_exit" => i = 1 /\ prev # None /\ h[i].scene = prev
          /\ h[i].fn = "on_enter" => (IF prev # None
                                      THEN i = 2 /\ h[1] = Hook("on_exit", prev)
                                      ELSE i = 1)

\* C2: in every transition that has an outgoing scene, that scene's on_exit is
\* invoked exactly once and before the incoming scene's on_enter; no on_enter
\* is invoked while the outgoing scene still lacks its on_exit.
C2_ExitBeforeEnter ==
    /\ \A f \in OpFrames : ExitBeforeEnter(f.hooks, TopOrNone(f.pre))
    /\ \A r \in Completed :
          /\ ExitBeforeEnter(r.hooks, TopOrNone(r.pre))
          /\ r.pre # <<>> => r.hooks # <<>> /\ r.hooks[1] = Hook("on_exit", Last(r.pre))
          /\ r.post # <<>> => Last(r.hooks) = Hook("on_enter", Last(r.post))
    /\ \A i \in 1..Len(calls) :
          calls[i].fn = "on_enter" =>
              /\ i > 1 /\ calls[i - 1].fn \in TransitionFns
              /\ Last(calls[i - 1].hooks) = Hook("on_enter", calls[i].scene)
              /\ calls[i - 1].pre # <<>> =>
                     calls[i - 1].hooks[1] = Hook("on_exit", Last(calls[i - 1].pre))

\* a push over a different scene is at its on_enter, the on_exit behind it
C2_Witness ==
    /\ Len(calls) >= 2 /\ TopFrame.fn = "on_enter"
    /\ LET f == calls[Len(calls) - 1] IN
          /\ f.fn = "push" /\ f.pre # <<>> /\ Last(f.pre) # f.scene
          /\ f.hooks = <<Hook("on_exit", Last(f.pre)), Hook("on_enter", f.scene)>>
          /\ on_exit_calls[Last(f.pre)] = 1

\* C3: pop() on a stack of depth 1 leaves the stack empty with no current scene;
\* pop() on an empty stack invokes no hook and leaves the stack empty with no
\* current scene; neither raises, however many pops follow one another.
C3_PopToEmpty ==
    /\ error = "none"
    /\ \A r \in Completed :
          r.op = "pop" =>
              /\ Len(r.pre) = 1 =>
                     r.post = <<>> /\ r.hooks = <<Hook("on_exit", r.pre[1])>>
              /\ r.pre = <<>> => r.post = <<>> /\ r.hooks = <<>>
              /\ (Len(r.pre) <= 1 /\ IsLatest(r)) => scenes = <<>> /\ current = None

\* two pops in a row: the first emptied a stack of depth 1, the second was a no-op
C3_Witness ==
    /\ Len(hist) = 2 /\ IsLatest(hist[2]) /\ error = "none"
    /\ hist[1].op = "pop" /\ Len(hist[1].pre) = 1
    /\ hist[2].op = "pop" /\ hist[2].pre = <<>> /\ hist[2].hooks = <<>>
    /\ scenes = <<>> /\ current = None

\* C4: switch(B) while A is current keeps the depth and every entry below the
\* top, makes B current, gives A exactly one on_exit and leaves A on the stack
\* only through another entry; on an empty stack it yields <<B>> with no on_exit.
C4_SwitchInPlace ==
    \A r \in Completed :
        r.op = "switch" =>
            /\ r.pre # <<>> =>
                   /\ Len(r.post) = Len(r.pre)
                   /\ Lower(r.post) = Lower(r.pre)
                   /\ Last(r.post) = r.scene
                   /\ r.hooks = <<Hook("on_exit", Last(r.pre)), Hook("on_enter", r.scene)>>
                   /\ Last(r.pre) \in Range(r.post) =>
                          Last(r.pre) \in Range(Lower(r.pre)) \cup {r.scene}
            /\ r.pre = <<>> =>
                   r.post = <<r.scene>> /\ r.hooks = <<Hook("on_enter", r.scene)>>
            /\ IsLatest(r) => current = r.scene /\ scenes = r.post

\* a switch on a stack of depth 2 replaced the top by another scene
C4_Witness ==
    /\ hist # <<>> /\ IsLatest(Last(hist))
    /\ LET r == Last(hist) IN
          /\ r.op = "switch" /\ Len(r.pre) = 2 /\ Len(scenes) = 2
          /\ Last(r.pre) # r.scene /\ current = r.scene
          /\ on_exit_calls[Last(r.pre)] >= 1

\* C5: push(B) over A keeps A directly below B, and the pop() that follows
\* restores the stack as it was with A current; over the pair A gets one
\* on_exit then one on_enter and B one on_enter then one on_exit.
C5_PushPopRoundTrip ==
    (/\ Len(hist) = 2
     /\ hist[1].op = "push" /\ hist[1].pre # <<>>
     /\ hist[2].op = "pop" /\ hist[2].seq = hist[1].seq + 1)
    => LET p == hist[1]  q == hist[2]  A == Last(hist[1].pre)  B == hist[1].scene IN
          /\ p.post = Append(p.pre, B)
          /\ q.pre = p.post
          /\ q.post = p.pre
          /\ p.hooks \o q.hooks = <<Hook("on_exit", A), Hook("on_enter", B),
                                    Hook("on_exit", B), Hook("on_enter", A)>>
          /\ IsLatest(q) => scenes = p.pre /\ current = A

\* a push over a different scene was undone by the next pop
C5_Witness ==
    /\ Len(hist) = 2 /\ IsLatest(hist[2])
    /\ hist[1].op = "push" /\ hist[1].pre # <<>> /\ Last(hist[1].pre) # hist[1].scene
    /\ hist[2].op = "pop" /\ hist[2].seq = hist[1].seq + 1
    /\ scenes = hist[1].pre /\ current = Last(hist[1].pre)
    /\ on_enter_calls[current] = 2

\* the callback frames on the call stack
CbFrames == {calls[i] : i \in {k \in 1..Len(calls) : calls[k].fn \notin TransitionFns}}
NumDispatchFrames == Cardinality({k \in 1..Len(calls) : calls[k].fn \in DispatchFns})

\* C6: every callback (handle_events, update, draw, on_enter, on_exit) goes to
\* the scene that is on top of the stack when it is invoked, each dispatch call
\* reaches exactly that one scene, and at most one dispatch callback is active.
C6_OnlyTopReceives ==
    /\ \A f \in CbFrames : f.scene # None /\ f.scene = f.top
    /\ \A i \in 1..Len(delivered) : delivered[i].to = delivered[i].top
    /\ NumDispatchFrames <= 1
    /\ NumDispatchFrames = 1 =>
           /\ calls[1].fn \in DispatchFns
           /\ delivered # <<>>
           /\ Last(delivered) = [phase |-> calls[1].fn, to |-> calls[1].scene,
                                 top |-> calls[1].top, ev |-> calls[1].events,
                                 seq |-> Last(delivered).seq]

\* update is running in the top scene of a stack of depth 2 whose bottom is
\* another scene
C6_Witness ==
    /\ Len(calls) = 1 /\ calls[1].fn = "update"
    /\ Len(scenes) = 2 /\ scenes[1] # scenes[2]
    /\ calls[1].scene = scenes[2]
    /\ Len(delivered) = 2 /\ delivered[1].to = scenes[2]

\* C7: on an empty stack SceneManager.handle_events, update and draw return
\* without error, invoke no callback and leave stack and current unchanged.
C7_EmptyDispatchNoOp ==
    [][(pc \in DispatchFns /\ calls = <<>> /\ scenes = <<>> /\ pc' # pc) =>
          /\ error' = "none" /\ pc' = After(pc)
          /\ calls' = <<>>
          /\ scenes' = <<>> /\ current' = current
          /\ UNCHANGED count_vars
          /\ Last(delivered').to = None]_vars

\* a whole iteration was dispatched on the empty stack
C7_Witness ==
    /\ pc = "present" /\ scenes = <<>> /\ current = None /\ error = "none"
    /\ Len(delivered) = 3
    /\ \A i \in 1..3 : delivered[i].to = None /\ delivered[i].top = None
    /\ \A s \in Scenes : on_enter_calls[s] = 0

\* C8: a transition a scene issues from inside handle_events or update is
\* complete when control is back in that callback, every later dispatch of the
\* frame goes to the scene that is current after it (to none on an empty
\* stack), never to the issuer unless it is current, and nothing raises.
C8_ReentrantTransition ==
    /\ error = "none"
    /\ (calls # <<>> /\ TopFrame.fn \in DispatchFns /\ hist # <<>>) =>
           /\ Last(hist).seq = ops
           /\ Last(hist).post = scenes
           /\ current = TopOrNone(scenes)
    /\ \A r \in Completed :
          r.by \in {"handle_events", "update"} =>
              /\ r.pre # <<>> \/ r.post # <<>> => r.hooks # <<>>
              /\ \A i \in 1..Len(delivered) :
                    delivered[i].seq = r.seq =>
                        /\ delivered[i].to = TopOrNone(r.post)
                        /\ r.issuer # TopOrNone(r.post) => delivered[i].to # r.issuer

\* a scene popped itself inside handle_events; update went to the scene below
C8_Witness ==
    /\ Len(delivered) >= 2 /\ hist # <<>>
    /\ LET r == Last(hist) IN
          /\ r.by = "handle_events" /\ r.op = "pop" /\ Len(r.pre) = 2
          /\ r.issuer = Last(r.pre) /\ r.issuer # r.post[1]
          /\ delivered[1].to = r.issuer
          /\ delivered[2].phase = "update" /\ delivered[2].seq = r.seq
          /\ delivered[2].to = r.post[1]

\* the phases of one iteration of Game.run
Iteration == <<"poll", "forward", "update", "clear", "draw", "present", "tick">>
\* the phases that lie behind each position of the loop
Behind(p) ==
    CASE p = "handle_events" -> <<>>
      [] p = "update" -> SubSeq(Iteration, 1, 2)
      [] p = "draw" -> SubSeq(Iteration, 1, 3)
      [] p = "present" -> SubSeq(Iteration, 1, 5)
      [] p = "tick" -> SubSeq(Iteration, 1, 6)
      [] OTHER -> Iteration

\* C9: every iteration of Game.run runs poll, forward, update, clear, draw,
\* present, tick once each in this order, on an empty stack too, and the
\* next iteration starts only after the tick.
C9_PhaseOrder ==
    /\ IsPrefix(phases, Iteration)
    /\ pc \in Range(RunBody) => phases = Behind(pc)
    /\ pc = "loop" => phases = <<>> \/ phases = Iteration
    /\ pc \in {"quit", "done"} => phases = Iteration
    /\ pc = "setup" => phases = <<>>
    /\ calls # <<>> /\ calls[1].fn \in DispatchFns =>
           /\ Last(delivered).phase = calls[1].fn
           /\ phases = (CASE calls[1].fn = "handle_events" -> SubSeq(Iteration, 1, 2)
                          [] calls[1].fn = "update" -> SubSeq(Iteration, 1, 3)
                          [] calls[1].fn = "draw" -> SubSeq(Iteration, 1, 5))
    /\ \A i \in 1..Len(delivered) :
          delivered[i].phase = <<"handle_events", "update", "draw">>[i]

\* an iteration on the empty stack has run all its phases
C9_Witness ==
    /\ pc = "loop" /\ phases = Iteration /\ running
    /\ scenes = <<>> /\ Len(delivered) = 3

\* C10: a QUIT event in the polled batch clears running; the whole batch, QUIT
\* included, is still forwarded; the iteration still updates, draws, presents
\* and ticks; the loop then ends at the loop test without another iteration;
\* running never goes back to true and the loop never ends mid-iteration.
C10_QuitEndsLoop ==
    /\ [](/\ HasQuit(polled) => ~running
          /\ ~running => HasQuit(polled)
          /\ delivered # <<>> => delivered[1].ev = polled
          /\ (calls # <<>> /\ calls[1].fn = "handle_events") => calls[1].events = polled
          /\ pc \in {"quit", "done"} =>
                 /\ ~running /\ phases = Iteration
                 /\ Len(delivered) = 3)
    /\ [][~running => ~running']_vars
    /\ [][(pc' = "quit" /\ pc # "quit") => (pc = "loop" /\ phases = Iteration)]_vars

\* the loop has ended after an iteration whose batch, holding a QUIT event,
\* went to a scene and which ran to its tick
C10_Witness ==
    /\ pc = "done" /\ ~running /\ HasQuit(polled)
    /\ phases = Iteration /\ Len(delivered) = 3
    /\ delivered[1].to # None /\ HasQuit(delivered[1].ev)
    /\ delivered[3].to # None

\* ------------------------------------------------ run() called once more
MaxRuns == 2        \* calls of Game.run() on one Game

\* the application calls game.run() again after it has returned (66-77):
\* nothing resets running, so the loop test fails and line 77 is reached again
GameRunAgain ==
    /\ pc = "done" /\ calls = <<>>
    /\ quits < MaxRuns
    /\ pc' = "loop"
    /\ UNCHANGED <<scenes, current, running, clock_time, calls, error, ops,
                   count_vars, hist, phases, polled, delivered, quits, ext_vars>>

NextRerun == Next \/ GameRunAgain

SpecRerun == Init /\ [][NextRerun]_vars

\* C11: pygame.quit() is performed exactly once over the life of a Game, only
\* after the loop has exited with running false, and no poll, scene callback
\* or present follows it, also when run() is called again on a stopped Game.
C11_QuitExactlyOnce ==
    /\ quits <= 1
    /\ pc = "done" => quits = 1
    /\ quits >= 1 => /\ ~running
                     /\ calls = <<>>
                     /\ pc \in {"done", "loop", "quit"}

\* --------------------------------------------- present() over window sizes
\* design resolutions and window sizes drawn: the small ones, and the
\* 320 x 180 surface in three windows
Displays ==
    {[surf |-> <<sw, sh>>, win |-> <<ww, wh>>, shown |-> <<>>] :
        sw \in 1..MaxSurf, sh \in 1..MaxSurf, ww \in 0..MaxWin, wh \in 0..MaxWin}
    \cup {[surf |-> <<DesignW, DesignH>>, win |-> w, shown |-> <<>>] :
            w \in {<<640, 480>>, <<100, 100>>, <<1999, 1009>>, <<0, 100>>}}

InitPresent ==
    /\ InitGame
    /\ display \in Displays

\* DisplayManager.present (31-58) on the window size the backend reports
DisplayPresent ==
    /\ display.shown = <<>>
    /\ display' = Present(display)
    /\ UNCHANGED <<scenes, current, running, clock_time, pc, calls, error, ops,
                   count_vars, hist, phases, polled, delivered, quits, assets,
                   backend>>

NextPresent == DisplayPresent

SpecPresent == InitPresent /\ [][NextPresent]_vars

\* C12: for positive sizes the image lies inside the window, fills at least
\* one axis exactly and is centred to within 1 px; 320x180 in 640x480 gives
\* (640, 360) at (0, 60) and in 100x100 gives (100, 56) at (0, 22).
C12_Letterbox ==
    (display.shown # <<>> /\ display.win[1] >= 1 /\ display.win[2] >= 1) =>
        LET ww == display.win[1]   wh == display.win[2]
            w == display.shown[3]  h == display.shown[4]
            x == display.shown[5]  y == display.shown[6]
        IN  /\ 0 <= x /\ 0 <= y /\ x + w <= ww /\ y + h <= wh
            /\ w = ww \/ h = wh
            /\ (ww - w - x) - x \in {0, 1}
            /\ (wh - h - y) - y \in {0, 1}
            /\ (display.surf = <<320, 180>> /\ display.win = <<640, 480>>) =>
                   <<w, h, x, y>> = <<640, 360, 0, 60>>
            /\ (display.surf = <<320, 180>> /\ display.win = <<100, 100>>) =>
                   <<w, h, x, y>> = <<100, 56, 0, 22>>

\* C13: the scale ratio is computed from the window size clamped to at least
\* 1 px, min(max(Wn, 1) / Sw, max(Hn, 1) / Sh), for every window size >= 0,
\* and present() raises no division error.
C13_ClampedRatio ==
    display.shown # <<>> =>
        LET cw == IF display.win[1] < 1 THEN 1 ELSE display.win[1]
            ch == IF display.win[2] < 1 THEN 1 ELSE display.win[2]
            claimed == Scale(cw, display.surf[1], ch, display.surf[2])
        IN  /\ display.shown[1] * claimed[2] = claimed[1] * display.shown[2]
            /\ error = "none"

\* ------------------------------------------------- a non-monotonic clock
\* elapsed times (ms) a clock that stepped backwards reports
BackwardTimes == {-5}

\* Game.tick, lines 60-64, when the clock went backwards since the last tick
GameTickBackwards ==
    /\ pc = "tick" /\ calls = <<>>
    /\ \E ms \in BackwardTimes : clock_time' = ms
    /\ phases' = Append(phases, "tick")
    /\ pc' = After("tick")
    /\ UNCHANGED <<scenes, current, running, calls, error, ops, count_vars,
                   hist, polled, delivered, quits, ext_vars>>

NextClock == Next \/ GameTickBackwards

SpecClock == Init /\ [][NextClock]_vars

\* C14: in every iteration, the first included, the dt handed to the scene
\* stack's update and to a scene's update is >= 0: a negative elapsed time is
\* clamped to 0.
C14_DtNonNegative ==
    /\ \A i \in 1..Len(calls) : calls[i].fn = "update" => calls[i].dt >= 0
    /\ (pc \in {"draw", "present", "tick"} /\ "update" \in Range(phases)) =>
           clock_time >= 0

\* ------------------------------------------------- the asset cache alone
NextAssets == AssetsLoadIcon \/ AssetsLoadImage \/ AssetsLoadSound

SpecAssets == Init /\ [][NextAssets]_vars

\* C15: while loads succeed, each name of each kind is read from disk at most
\* once, and every later call with that name returns the very object that the
\* first call returned.
C15_LoadedOnce ==
    /\ \A i, j \in 1..Len(assets.reads) :
          assets.reads[i] = assets.reads[j] => i = j
    /\ \A i, j \in 1..Len(assets.returned) :
          (/\ i < j
           /\ assets.returned[i].kind = assets.returned[j].kind
           /\ assets.returned[i].name = assets.returned[j].name)
          => assets.returned[j].handle = assets.returned[i].handle
    /\ \A i \in 1..Len(assets.returned) : assets.returned[i].handle # NoHandle

\* the same image was asked for twice between other loads: one read of it,
\* the same object both times
C15_Witness ==
    /\ Len(assets.returned) = 4 /\ Len(assets.reads) = 3
    /\ assets.returned[1].kind = "image" /\ assets.returned[4].kind = "image"
    /\ assets.returned[1].name = "bird.png" /\ assets.returned[4].name = "bird.png"
    /\ assets.returned[4].handle = assets.returned[1].handle
    /\ assets.returned[2].kind = "sound" /\ assets.returned[3].kind = "icon"

\* C20: the icon and the images never alias: load_icon() returns the object
\* loaded from favicon.ico and load_image(name) the object loaded from
\* textures/name, in every order of calls and for name = "icon" too.
C20_IconNeverAliased ==
    \A i \in 1..Len(assets.returned) :
        LET c == assets.returned[i] IN
            /\ c.kind = "icon" => c.handle.path = IconPath
            /\ c.kind = "image" => c.handle.path = ImagePath(c.name)

\* ------------------------------------------------------ Game construction
\* the construction step that raises pygame.error, 0 if none does:
\* 2 is pygame.mixer.init() (line 19), 3 is pygame.display.set_mode (line 21,
\* display.py line 24)
Outcomes == {0, 2, 3}

\* the subsystems brought up by the steps that ran before step `failed`
\* raised; nothing in Game.__init__ (14-24) catches the error or shuts down
BroughtUp(failed) ==
    IF failed = 0 THEN Range(Subsystems)
    ELSE {Subsystems[i] : i \in 1..(failed - 1)}

InitStartup ==
    /\ InitFields
    /\ pc = "new"
    /\ backend = {}
    /\ display = NewDisplay(DesignW, DesignH)

\* Game.__init__ (14-24)
GameInit ==
    /\ pc = "new"
    /\ \E failed \in Outcomes :
          /\ backend' = BroughtUp(failed)
          /\ IF failed = 0
             THEN pc' = "setup" /\ UNCHANGED error
             ELSE pc' = "crashed" /\ error' = "pygame.error"
    /\ UNCHANGED <<scenes, current, running, clock_time, calls, ops, count_vars,
                   hist, phases, polled, delivered, quits, display, assets>>

NextStartup == GameInit \/ Next

SpecStartup == InitStartup /\ [][NextStartup]_vars

\* C16: when a startup step of Game construction fails, every subsystem that
\* an earlier step initialised has been shut down again by the time the error
\* reaches the caller.
C16_NoPartialStartup ==
    error = "pygame.error" => backend = {}

\* ------------------------------------------- transitions issued from hooks
\* a scene calls the manager from inside its on_enter or on_exit
HookCalls ==
    /\ calls # <<>> /\ TopFrame.fn \in HookFns
    /\ CallManager(TopFrame.fn, TopFrame.scene)

\* the manager as the entry point drives it before run(), with scenes whose
\* hooks call back into it
NextHooks ==
    \/ AppCalls
    \/ HookCalls
    \/ SceneManagerPush
    \/ SceneManagerPop
    \/ SceneManagerSwitch
    \/ SceneReturns

SpecHooks == Init /\ [][NextHooks]_vars

\* C17: whenever a push, pop or switch call returns, whoever issued it, and
\* whenever no such call is in progress, current is the last element of
\* scenes, or None when scenes is empty.
C17_CurrentIsTop ==
    /\ (calls # <<>> /\ TopFrame.fn \in TransitionFns /\ TopFrame.pc = "done")
          => current = TopOrNone(scenes)
    /\ ~InTransition => current = TopOrNone(scenes)

\* a call issued by the application or a dispatch callback returns after a
\* call that one of its hooks issued has returned
C17_Witness ==
    /\ calls # <<>> /\ TopFrame.fn \in TransitionFns /\ TopFrame.pc = "done"
    /\ TopFrame.by \notin HookFns
    /\ hist # <<>> /\ Last(hist).by \in HookFns /\ Last(hist).seq > TopFrame.seq
    /\ scenes # <<>>

\* C18: push, pop and switch never raise, even when a hook of the outgoing or
\* the incoming scene itself calls the manager.
C18_NeverRaises ==
    error = "none"

\* the top frame is a pop or a switch about to execute self.scenes.pop()
\* (line 90 / line 105), its on_exit call having returned
AboutToRemove ==
    /\ calls # <<>> /\ TopFrame.fn \in {"pop", "switch"} /\ TopFrame.pc = "exited"
    /\ scenes # <<>>

\* C19: once the outermost call has returned, whatever the hooks called in the
\* meantime, every scene that is not current has received as many on_exit as
\* on_enter calls and the current scene one more on_enter than on_exit; and
\* the scene a pop or switch removes is the one that call gave on_exit to.
C19_HookAccounting ==
    /\ (~InTransition /\ error = "none") =>
          \A s \in Scenes :
              on_enter_calls[s] - on_exit_calls[s] = IF s = current THEN 1 ELSE 0
    /\ AboutToRemove => Last(scenes) = TopFrame.hooks[1].scene

====
